---- MODULE Spec2Model ----
(***************************************************************************)
(* A model of python-chess: chess/piece.py (the pieces, their movement     *)
(* geometry and Piece.move) and chess/board.py (the Board container and    *)
(* its queries).  Squares are <<row, col>> pairs as in the source.         *)
(***************************************************************************)
EXTENDS Integers, Sequences, FiniteSets, TLC

VARIABLES
    state,    \* Board.state: the 8x8 grid, each cell None or a reference to a piece
    pieces,   \* the heap of Piece objects: reference -> [kind, color, position, has_moved]
    call,     \* the call the caller has made and not yet consumed
    ret,      \* what that call returned or raised
    moved     \* history: the references whose move() has succeeded at least once

vars == <<state, pieces, call, ret, moved>>

(***************************************************************************)
(* Constants of the program and bounds of the model.                       *)
(***************************************************************************)
BOARD_SIZE == 8

\* How far off the board (in squares, on every side) a caller's target may lie.
Margin == 1

\* How many pieces of a board may have been moved away from their cell.
MaxDisplaced == 1

COLOR_WHITE == "white"
COLOR_BLACK == "black"
Colors == {COLOR_WHITE, COLOR_BLACK}
Kinds == {"Pawn", "Knight", "Bishop", "Rook", "Queen", "King"}

Squares == (0 .. BOARD_SIZE - 1) \X (0 .. BOARD_SIZE - 1)
Targets == ((0 - Margin) .. (BOARD_SIZE - 1 + Margin)) \X ((0 - Margin) .. (BOARD_SIZE - 1 + Margin))

(***************************************************************************)
(* Python values: every value carries its type, so that values of          *)
(* different types compare unequal.                                        *)
(***************************************************************************)
PyNone == [type |-> "NoneType"]
PyBool(b) == [type |-> "bool", v |-> b]
PyTuple(t) == [type |-> "tuple", v |-> t]
PyList(s) == [type |-> "list", v |-> s]
Ref(i) == [type |-> "Piece", id |-> i]

NoException == "no exception"
Returns(v) == [raised |-> NoException, value |-> v]
Raises(e) == [raised |-> e, value |-> PyNone]

NoCall == [op |-> "none", args |-> << >>]

Abs(n) == IF n < 0 THEN 0 - n ELSE n

(***************************************************************************)
(* chess/piece.py                                                          *)
(***************************************************************************)
\* Piece.__init__ (and HasMovedMixin.has_moved's default, False)
NewPiece(kind, color, position) ==
    [kind |-> kind, color |-> color, position |-> position, has_moved |-> FALSE]

HasMovedKinds == {"Pawn", "King", "Rook"}

has_moved(self) == self.has_moved

Pawn_can_moveIgnoringHasMoved(self, target) ==
    LET dx == self.position[2] - target[2]
        dy == IF self.color = COLOR_WHITE
              THEN self.position[1] - target[1]
              ELSE target[1] - self.position[1]
    IN  (dy = 1 /\ dx = 0) \/ (dy = 2 /\ dx = 0)

Pawn_can_move(self, target) ==
    LET dx == self.position[2] - target[2]
        dy == IF self.color = COLOR_WHITE
              THEN self.position[1] - target[1]
              ELSE target[1] - self.position[1]
    IN  (dy = 1 /\ dx = 0) \/ (dy = 2 /\ dx = 0 /\ ~has_moved(self))

King_can_move(self, target) ==
    LET dx == Abs(self.position[2] - target[2])
        dy == Abs(self.position[1] - target[1])
    IN  (dx = 1 /\ dy \in {0, 1}) \/ (dy = 1 /\ dx \in {0, 1})

Queen_can_move(self, target) ==
    LET dx == Abs(self.position[2] - target[2])
        dy == Abs(self.position[1] - target[1])
    IN  (dx = dy /\ dy # 0) \/ (dx = 0 /\ 0 # dy) \/ (dx # 0 /\ 0 = dy)

Rook_can_move(self, target) ==
    LET dx == Abs(self.position[2] - target[2])
        dy == Abs(self.position[1] - target[1])
    IN  (dx = 0 /\ 0 # dy) \/ (dx # 0 /\ 0 = dy)

Knight_can_move(self, target) ==
    LET dx == Abs(self.position[2] - target[2])
        dy == Abs(self.position[1] - target[1])
    IN  dx = 1 /\ dy = 2

Bishop_can_move(self, target) ==
    LET dx == Abs(self.position[2] - target[2])
        dy == Abs(self.position[1] - target[1])
    IN  dx = dy /\ dy # 0

\* The dynamic dispatch of self.can_move on the piece's class.
can_move(self, target) ==
    CASE self.kind = "Pawn" -> Pawn_can_move(self, target)
      [] self.kind = "King" -> King_can_move(self, target)
      [] self.kind = "Queen" -> Queen_can_move(self, target)
      [] self.kind = "Rook" -> Rook_can_move(self, target)
      [] self.kind = "Knight" -> Knight_can_move(self, target)
      [] self.kind = "Bishop" -> Bishop_can_move(self, target)

\* The squares of a board of the given size in the order of the two nested loops.
RowMajor(board_size) ==
    [i \in 1 .. board_size * board_size |->
        <<(i - 1) \div board_size, (i - 1) % board_size>>]

get_possible_positions(self, board_size) ==
    LET Reachable(position) == can_move(self, position)
        positions == SelectSeq(RowMajor(board_size), Reachable)
    IN  IF Len(positions) > 0 THEN PyList(positions) ELSE PyNone

\* Piece.move: the outcome is the piece after the call and what was raised.
Piece_moveUnchecked(self, target_position) ==
    IF can_move(self, target_position)
    THEN [self |-> [self EXCEPT !.position = target_position], raised |-> NoException]
    ELSE [self |-> [self EXCEPT !.position = target_position],
          raised |-> "InvalidMoveException"]

Piece_move(self, target_position) ==
    IF can_move(self, target_position)
    THEN [self |-> [self EXCEPT !.position = target_position], raised |-> NoException]
    ELSE [self |-> self, raised |-> "InvalidMoveException"]

\* Pawn.move, King.move and Rook.move share one body: super().move, then the flag.
MoveAndFlag(self, target_position) ==
    LET r == Piece_move(self, target_position)
    IN  IF r.raised # NoException
        THEN r
        ELSE [self |-> IF ~has_moved(r.self)
                       THEN [r.self EXCEPT !.has_moved = TRUE]
                       ELSE r.self,
              raised |-> NoException]

Pawn_move(self, target_position) == MoveAndFlag(self, target_position)

King_move(self, target_position) == MoveAndFlag(self, target_position)

Rook_moveForgetsFlag(self, target_position) == Piece_move(self, target_position)

Rook_move(self, target_position) == MoveAndFlag(self, target_position)

\* The dynamic dispatch of piece.move on the piece's class.
move(self, target_position) ==
    CASE self.kind = "Pawn" -> Pawn_move(self, target_position)
      [] self.kind = "King" -> King_move(self, target_position)
      [] self.kind = "Rook" -> Rook_move(self, target_position)
      [] OTHER -> Piece_move(self, target_position)

(***************************************************************************)
(* chess/board.py                                                          *)
(***************************************************************************)
\* The reference a board's constructor argument holds for the piece on a square.
IdOf(position) == position[1] * BOARD_SIZE + position[2] + 1

\* A board given as the set of pieces its grid holds, each on its own square.
Grid(ps) ==
    [sq \in Squares |->
        IF \E p \in ps : p.position = sq THEN Ref(IdOf(sq)) ELSE PyNone]

Heap(ps) ==
    [i \in {IdOf(p.position) : p \in ps} |->
        CHOOSE p \in ps : IdOf(p.position) = i]

BackRank == <<"Rook", "Knight", "Bishop", "Queen", "King", "Bishop", "Knight", "Rook">>

\* Board.__init__ with state None: the standard arrangement.
InitialPieces ==
    {NewPiece(BackRank[col + 1], COLOR_BLACK, <<0, col>>) : col \in 0 .. 7}
    \cup {NewPiece("Pawn", COLOR_BLACK, <<1, col>>) : col \in 0 .. 7}
    \cup {NewPiece("Pawn", COLOR_WHITE, <<6, col>>) : col \in 0 .. 7}
    \cup {NewPiece(BackRank[col + 1], COLOR_WHITE, <<7, col>>) : col \in 0 .. 7}

Occupied(sq) == state[sq].type = "Piece"
At(sq) == pieces[state[sq].id]

\* Board.update
update(piece_position, target_position) == Raises("NotImplementedError")

\* Board.get_pieces: filter() is called with one argument.
get_pieces(color) == Raises("TypeError")

\* Board.get_possible_moves: get_pieces raises before anything else is evaluated.
get_possible_moves(color) ==
    LET ps == get_pieces(color)
    IN  IF ps.raised # NoException
        THEN ps
        ELSE IF Len(ps.value.v) = 0
             THEN Returns(PyList(<< >>))
             ELSE Raises("AttributeError")

\* Board.get_state
get_state(color, position) ==
    IF ~Occupied(position)
    THEN Raises("AttributeError")
    ELSE IF At(position).color = color THEN Returns(PyBool(FALSE))
         ELSE Returns(PyBool(TRUE))

\* Board.get_king_position: the first king of the color in row-major order.
get_king_position(color) ==
    LET order == RowMajor(BOARD_SIZE)
        IsKing(i) == /\ Occupied(order[i])
                     /\ At(order[i]).kind = "King"
                     /\ At(order[i]).color = color
        found == {i \in DOMAIN order : IsKing(i)}
    IN  IF found = {}
        THEN Returns(PyNone)
        ELSE LET first == CHOOSE i \in found : \A j \in found : i <= j
             IN  Returns(PyTuple(At(order[first]).position))

\* Board.is_check
is_check(color) ==
    LET enemy_moves ==
            get_possible_moves(IF color = COLOR_WHITE THEN COLOR_BLACK ELSE COLOR_WHITE)
        king_position == get_king_position(color)
    IN  IF enemy_moves.raised # NoException
        THEN enemy_moves
        ELSE Returns(PyBool(\E i \in DOMAIN enemy_moves.value.v :
                                /\ enemy_moves.value.v[i].type = king_position.value.type
                                /\ enemy_moves.value.v[i] = king_position.value))

\* Board.is_checkmate
is_checkmate(color) ==
    LET chk == is_check(color)
    IN  IF chk.raised # NoException
        THEN chk
        ELSE IF ~chk.value.v
             THEN Returns(PyBool(FALSE))
             ELSE LET own_moves == get_possible_moves(color)
                  IN  IF own_moves.raised # NoException
                      THEN own_moves
                      ELSE Returns(PyBool(Len(own_moves.value.v) = 0))

\* Board.is_stalemate
is_stalemate(color) == Raises("NotImplementedError")

(***************************************************************************)
(* The calls a caller makes.  A call runs to completion and leaves its     *)
(* outcome in ret; the caller consumes the outcome before its next call.   *)
(***************************************************************************)
Calling(op, args) == call = NoCall /\ call' = [op |-> op, args |-> args]

PieceMove(p, target) ==
    /\ Calling("move", <<p, target>>)
    /\ LET r == move(pieces[p], target)
       IN  /\ pieces' = [pieces EXCEPT ![p] = r.self]
           /\ ret' = IF r.raised = NoException THEN Returns(PyNone) ELSE Raises(r.raised)
           /\ moved' = IF r.raised = NoException THEN moved \cup {p} ELSE moved
    /\ UNCHANGED state

GetPossiblePositions(p) ==
    /\ Calling("get_possible_positions", <<p>>)
    /\ ret' = Returns(get_possible_positions(pieces[p], BOARD_SIZE))
    /\ UNCHANGED <<state, pieces, moved>>

BoardUpdate(src, tgt) ==
    /\ Calling("update", <<src, tgt>>)
    /\ ret' = update(src, tgt)
    /\ UNCHANGED <<state, pieces, moved>>

GetPieces(color) ==
    /\ Calling("get_pieces", <<color>>)
    /\ ret' = get_pieces(color)
    /\ UNCHANGED <<state, pieces, moved>>

GetPossibleMoves(color) ==
    /\ Calling("get_possible_moves", <<color>>)
    /\ ret' = get_possible_moves(color)
    /\ UNCHANGED <<state, pieces, moved>>

GetState(color, position) ==
    /\ Calling("get_state", <<color, position>>)
    /\ ret' = get_state(color, position)
    /\ UNCHANGED <<state, pieces, moved>>

GetKingPosition(color) ==
    /\ Calling("get_king_position", <<color>>)
    /\ ret' = get_king_position(color)
    /\ UNCHANGED <<state, pieces, moved>>

IsCheck(color) ==
    /\ Calling("is_check", <<color>>)
    /\ ret' = is_check(color)
    /\ UNCHANGED <<state, pieces, moved>>

IsCheckmate(color) ==
    /\ Calling("is_checkmate", <<color>>)
    /\ ret' = is_checkmate(color)
    /\ UNCHANGED <<state, pieces, moved>>

IsStalemate(color) ==
    /\ Calling("is_stalemate", <<color>>)
    /\ ret' = is_stalemate(color)
    /\ UNCHANGED <<state, pieces, moved>>

\* The caller has seen the outcome (a value, or an exception it caught).
Return ==
    /\ call # NoCall
    /\ call' = NoCall
    /\ ret' = Returns(PyNone)
    /\ UNCHANGED <<state, pieces, moved>>

\* The pieces a board holds whose position is no longer the cell that holds them.
Displaced ==
    Cardinality({sq \in Squares : Occupied(sq) /\ At(sq).position # sq})

(***************************************************************************)
(* The boards and pieces a program starts from.                            *)
(***************************************************************************)
\* A king alone with an enemy queen on its rank.
ScenarioB ==
    {NewPiece("King", COLOR_WHITE, <<0, 0>>), NewPiece("Queen", COLOR_BLACK, <<0, 7>>)}

\* The same with the second king on the board.
ScenarioBTwoKings ==
    ScenarioB \cup {NewPiece("King", COLOR_BLACK, <<7, 4>>)}

\* A king that is not attacked and has no square to go to.
ScenarioC ==
    {NewPiece("King", COLOR_WHITE, <<7, 7>>), NewPiece("King", COLOR_BLACK, <<0, 0>>),
     NewPiece("Queen", COLOR_BLACK, <<5, 6>>)}

\* A king attacked by a protected queen next to it.
ScenarioMate ==
    {NewPiece("King", COLOR_WHITE, <<0, 0>>), NewPiece("Queen", COLOR_BLACK, <<1, 1>>),
     NewPiece("King", COLOR_BLACK, <<2, 2>>)}

InitBoards == {InitialPieces, ScenarioB, ScenarioBTwoKings, ScenarioC, ScenarioMate}

\* A piece of any kind and color created on any square of the board, held by no board.
FreePieces ==
    {NewPiece(k, c, sq) : k \in Kinds, c \in Colors, sq \in Squares}

Init ==
    /\ \E ps \in InitBoards : state = Grid(ps) /\ pieces = Heap(ps)
    /\ call = NoCall
    /\ ret = Returns(PyNone)
    /\ moved = {}

InitPiece ==
    /\ state = Grid({})
    /\ \E piece \in FreePieces : pieces = [i \in {1} |-> piece]
    /\ call = NoCall
    /\ ret = Returns(PyNone)
    /\ moved = {}

Next ==
    \/ /\ call = NoCall
       /\ Displaced < MaxDisplaced
       /\ \E p \in DOMAIN pieces : \E target \in Targets : PieceMove(p, target)
    \/ \E p \in DOMAIN pieces : GetPossiblePositions(p)
    \/ \E p \in DOMAIN pieces : \E target \in Squares :
          /\ call = NoCall
          /\ can_move(pieces[p], target)
          /\ BoardUpdate(pieces[p].position, target)
    \/ \E color \in Colors : GetPieces(color)
    \/ \E color \in Colors : GetPossibleMoves(color)
    \/ \E color \in Colors : \E position \in Squares : GetState(color, position)
    \/ \E color \in Colors : GetKingPosition(color)
    \/ \E color \in Colors : IsCheck(color)
    \/ \E color \in Colors : IsCheckmate(color)
    \/ \E color \in Colors : IsStalemate(color)
    \/ Return

\* The program that only creates a piece and moves it.
PieceNext ==
    \/ \E p \in DOMAIN pieces : \E target \in Targets : PieceMove(p, target)
    \/ \E p \in DOMAIN pieces : GetPossiblePositions(p)
    \/ Return

Spec == Init /\ [][Next]_vars

PieceSpec == InitPiece /\ [][PieceNext]_vars

(***************************************************************************)
(* What the claims speak of: attack by raw geometry, and legal targets     *)
(* (a pseudo-legal target whose hypothetical application does not leave    *)
(* the mover's own king attacked).                                         *)
(***************************************************************************)
OtherColor(color) == IF color = COLOR_WHITE THEN COLOR_BLACK ELSE COLOR_WHITE

PiecesOf(heap, color) == {i \in DOMAIN heap : heap[i].color = color}

KingSquares(color) ==
    {sq \in Squares : Occupied(sq) /\ At(sq).kind = "King" /\ At(sq).color = color}

OneKingPerColor == \A color \in Colors : Cardinality(KingSquares(color)) = 1

\* Some piece of the other color reaches, by can_move alone, the square that
\* get_king_position gives for the color.
AttackedAtKingPosition(color) ==
    LET king_position == get_king_position(color)
    IN  /\ king_position.value.type = "tuple"
        /\ \E e \in PiecesOf(pieces, OtherColor(color)) :
              can_move(pieces[e], king_position.value.v)

KingAttacked(heap, color) ==
    \E k \in PiecesOf(heap, color) :
        /\ heap[k].kind = "King"
        /\ \E e \in PiecesOf(heap, OtherColor(color)) : can_move(heap[e], heap[k].position)

\* The hypothetical application of a move: the piece stands on the target and
\* whatever stood there is gone.
ApplyMove(heap, p, target) ==
    [i \in {j \in DOMAIN heap : j = p \/ heap[j].position # target} |->
        IF i = p THEN move(heap[p], target).self ELSE heap[i]]

LegalTargets(heap, p) ==
    {target \in Squares :
        /\ can_move(heap[p], target)
        /\ ~KingAttacked(ApplyMove(heap, p, target), heap[p].color)}

NoLegalTarget(color) ==
    \A p \in PiecesOf(pieces, color) : LegalTargets(pieces, p) = {}

ReturnedBool(r, b) ==
    /\ r.raised = NoException
    /\ r.value.type = "bool"
    /\ r.value.v = b

IsTrue(r) == ReturnedBool(r, TRUE)

InPositions(position, r) ==
    /\ r.type = "list"
    /\ \E i \in DOMAIN r.v : r.v[i] = position

\* A pawn's direction along the rows: white pawns start on row 6 and walk to row 0.
Forward(color) == IF color = COLOR_WHITE THEN 0 - 1 ELSE 1

OneStep(self) == <<self.position[1] + Forward(self.color), self.position[2]>>

TwoStep(self) == <<self.position[1] + 2 * Forward(self.color), self.position[2]>>

\* The transition is a call of move on piece p that raised nothing.
MoveAccepted(p) ==
    /\ call = NoCall
    /\ call'.op = "move"
    /\ call'.args[1] = p
    /\ ret'.raised = NoException

(***************************************************************************)
(* The claims.                                                             *)
(***************************************************************************)

\* C1: on a board with exactly one king per color, is_check(c) returns True
\* exactly when some piece of the other color can reach, by can_move alone, the
\* square get_king_position(c) returns; and for the lone king at (0,0) with an
\* enemy queen at (0,7) is_check of the king's color returns True.
C1_IsCheckByGeometry ==
    call.op = "is_check" =>
        LET color == call.args[1]
        IN  /\ OneKingPerColor => ReturnedBool(ret, AttackedAtKingPosition(color))
            /\ (state = Grid(ScenarioB) /\ pieces = Heap(ScenarioB) /\ color = COLOR_WHITE)
                  => ReturnedBool(ret, TRUE)

\* C2: is_checkmate(c) returns True exactly when c is in check and no piece of
\* c has a legal target square.
C2_IsCheckmateContract ==
    call.op = "is_checkmate" =>
        LET color == call.args[1]
        IN  ReturnedBool(ret, KingAttacked(pieces, color) /\ NoLegalTarget(color))

\* C3: is_stalemate(c) returns a boolean, True exactly when c is not in check
\* and no piece of c has a legal target square; is_stalemate(c) and
\* is_checkmate(c) are never both True.
C3_IsStalemateContract ==
    /\ call.op = "is_stalemate" =>
          LET color == call.args[1]
          IN  ReturnedBool(ret, ~KingAttacked(pieces, color) /\ NoLegalTarget(color))
    /\ \A color \in Colors : ~(IsTrue(is_stalemate(color)) /\ IsTrue(is_checkmate(color)))

\* C4: move(target) on a piece of any kind raises InvalidMoveException and
\* leaves position and has_moved as they were when can_move(target) is False,
\* and raises nothing and sets position to target when can_move(target) is True.
C4_MoveContract ==
    [][(call = NoCall /\ call'.op = "move") =>
          LET p == call'.args[1]
              target == call'.args[2]
          IN  IF can_move(pieces[p], target)
              THEN /\ ret'.raised = NoException
                   /\ pieces'[p].position = target
              ELSE /\ ret'.raised = "InvalidMoveException"
                   /\ pieces'[p].position = pieces[p].position
                   /\ pieces'[p].has_moved = pieces[p].has_moved]_vars

C4_RejectedAfterAccepted ==
    /\ call.op = "move"
    /\ ret.raised = "InvalidMoveException"
    /\ call.args[1] \in moved

\* C5: for a Pawn, King or Rook has_moved is False at creation, becomes True
\* on the first successful move, is True ever after, and a rejected move never
\* changes it: over every step, has_moved afterwards is "has_moved before, or
\* the step is a successful move of the piece".
C5_HasMovedOnce ==
    /\ \A p \in DOMAIN pieces :
          pieces[p].kind \in HasMovedKinds => ~has_moved(pieces[p])
    /\ [][\A p \in DOMAIN pieces :
             pieces[p].kind \in HasMovedKinds =>
                 (has_moved(pieces'[p]) <=> (has_moved(pieces[p]) \/ MoveAccepted(p)))]_vars

C5_RookRejectedAfterMoving ==
    /\ call.op = "move"
    /\ ret.raised = "InvalidMoveException"
    /\ pieces[call.args[1]].kind = "Rook"
    /\ has_moved(pieces[call.args[1]])

\* Every pawn of the standard arrangement has its one-step and its two-step
\* square in get_possible_positions(8).
StandardPawnsListBothSteps ==
    \A pawn \in InitialPieces :
        pawn.kind = "Pawn" =>
            /\ InPositions(OneStep(pawn), get_possible_positions(pawn, BOARD_SIZE))
            /\ InPositions(TwoStep(pawn), get_possible_positions(pawn, BOARD_SIZE))

\* C7: a pawn's can_move is True exactly for the square one step straight
\* forward and, while has_moved is False, the square two steps straight forward;
\* every pawn of the standard arrangement has both squares in
\* get_possible_positions(8); a pawn that has moved successfully never has its
\* two-step square in get_possible_positions(8).
C7_PawnGeometry ==
    /\ \A p \in DOMAIN pieces :
          pieces[p].kind = "Pawn" =>
              LET self == pieces[p]
              IN  /\ \A target \in Targets :
                        can_move(self, target) <=>
                            \/ target = OneStep(self)
                            \/ ~has_moved(self) /\ target = TwoStep(self)
                  /\ p \in moved =>
                        ~InPositions(TwoStep(self), get_possible_positions(self, BOARD_SIZE))
    /\ StandardPawnsListBothSteps

C7_MovedPawnListsItsSquares ==
    /\ call.op = "get_possible_positions"
    /\ call.args[1] \in moved
    /\ pieces[call.args[1]].kind = "Pawn"
    /\ TwoStep(pieces[call.args[1]]) \in Squares
    /\ ret.value.type = "list"

\* C6: a knight's can_move is True exactly when (|column delta|, |row delta|)
\* is (1,2) or (2,1), and get_possible_positions(8) of a knight at (0,0) is
\* exactly the squares (2,1) and (1,2).
C6_KnightGeometry ==
    /\ \A p \in DOMAIN pieces :
          pieces[p].kind = "Knight" =>
              \A target \in Targets :
                  LET dx == Abs(pieces[p].position[2] - target[2])
                      dy == Abs(pieces[p].position[1] - target[1])
                  IN  can_move(pieces[p], target) <=>
                          ((dx = 1 /\ dy = 2) \/ (dx = 2 /\ dy = 1))
    /\ (call.op = "get_possible_positions"
            /\ pieces[call.args[1]].kind = "Knight"
            /\ pieces[call.args[1]].position = <<0, 0>>)
          => /\ ret.value.type = "list"
             /\ {ret.value.v[i] : i \in DOMAIN ret.value.v} = {<<2, 1>>, <<1, 2>>}

\* C8: get_state(c, s) returns True when s is empty or holds a piece of the
\* other color and False when s holds a piece of color c, for every square of
\* the board.
C8_GetStateContract ==
    call.op = "get_state" =>
        LET color == call.args[1]
            position == call.args[2]
        IN  ReturnedBool(ret, ~(Occupied(position) /\ At(position).color = color))

\* C9: from the standard initial board, every piece held in state[r][c] has
\* position (r, c), no piece is held by two cells, and get_king_position(color)
\* is the index of the cell that holds that king.
C9_GridMatchesPositions ==
    state = Grid(InitialPieces) =>
        /\ \A sq \in Squares : Occupied(sq) => At(sq).position = sq
        /\ \A sq1, sq2 \in Squares :
              (Occupied(sq1) /\ Occupied(sq2) /\ state[sq1].id = state[sq2].id) => sq1 = sq2
        /\ \A color \in Colors :
              \E sq \in KingSquares(color) :
                  LET found == get_king_position(color)
                  IN  found.value.type = "tuple" /\ found.value.v = sq

\* C10: a piece created on the board stays on the board: after any moves both
\* coordinates of its position are in [0,8).
C10_StaysOnBoard ==
    \A p \in DOMAIN pieces : pieces[p].position \in Squares

====
